---- MODULE Spec2Model ----
(***************************************************************************)
(* Model of SimianContext.py: the gui_event routing function, the event    *)
(* callbacks that transform the payload, and the component initializers.   *)
(* The Simian host (form runtime, utils helpers) is modelled only as far   *)
(* as the file calls into it.                                              *)
(***************************************************************************)
EXTENDS Integers, Sequences, FiniteSets, TLC

VARIABLES
    handlers,     \* Form.eventHandler registry: event name -> callback name
    data,         \* the host's form state (submission values)
    pending,      \* follow-up event the host still has to dispatch ("" = none)
    req,          \* (meta_data, payload) handed to the last invocation
    ret,          \* value returned by the last invocation
    ran,          \* callbacks that ran during the last invocation, in order
    prevRan,      \* value of ran before the last invocation
    chain,        \* callbacks run since the last user-triggered event
    calls,        \* number of invocations so far
    memo,         \* one remembered earlier invocation: its input and output
    base,         \* ComponentKey value when the user last edited it
    nRuns,        \* runs of event_callback_function since that edit
    alertsAdded,  \* alerts added by callbacks since that edit
    form,         \* component key -> component properties
    initLog       \* the last initializer application

vars == <<handlers, data, pending, req, ret, ran, prevRan, chain, calls, memo,
          base, nRuns, alertsAdded, form, initLog>>

----------------------------------------------------------------------------
\* Bounds of the model.

MaxEvents == 3
MaxCalls == 2
MaxShapes == 3
MaxInits == 3

\* Values the user can enter in the ComponentKey field.
InitValues == {2, 4}

\* Session meta data the host passes along.
MetaData == {"sessionA", "sessionB"}

\* Components whose interaction can trigger an event.
TriggerKeys == {"ComponentKey", "runButton"}

----------------------------------------------------------------------------
\* Python's None, and the test for a returned payload.

None == [none |-> TRUE]

IsPayload(r) == "event" \in DOMAIN r

NoRequest == [none |-> TRUE]

----------------------------------------------------------------------------
\* Helpers of the simian package the file calls.

getSubmissionData(payload, key) == payload[key]

setSubmissionData(payload, key, value) == [payload EXCEPT ![key] = value]

addAlert(payload, message, type) ==
    [payload EXCEPT !["alerts"] = Append(@, [message |-> message, type |-> type])]

prepare_values(prop_meta, prop_values) ==
    [meta |-> prop_meta, values |-> prop_values]

\* Form.eventHandler(**kwargs): registers the given callbacks.
eventHandler(registry, kwargs) ==
    [e \in (DOMAIN registry) \cup (DOMAIN kwargs) |->
        IF e \in DOMAIN kwargs THEN kwargs[e] ELSE registry[e]]

\* utils.getEventFunction: the callback registered for the payload's event.
getEventFunction(registry, meta_data, payload) == registry[payload["event"]]

----------------------------------------------------------------------------
\* The values the file writes.

DataTablesDefault ==
    << [id |-> 0, name |-> "Bob", age |-> 49, present |-> TRUE],
       [id |-> 1, name |-> "Sarah", age |-> 47, present |-> FALSE] >>

NewRow == [id |-> 2, name |-> "Sarah", age |-> 47, present |-> FALSE]

simple_shape_box == [type |-> "line", x |-> <<20, 30>>, y |-> <<15, 25>>, closed |-> FALSE]

path_shape == [type |-> "path", x |-> <<20, 30, 25>>, y |-> <<15, 25, 30>>, closed |-> TRUE]

property_editor_rows == << "Property name" >>

PropertyEditorDefault == prepare_values(<< >>, << >>)

\* Shapes a user can draw with the drawing tools enabled by
\* component_initializer_plotly.
UserShapes ==
    { [type |-> "rect", x |-> <<1, 2>>, y |-> <<1, 2>>, closed |-> FALSE],
      [type |-> "circle", x |-> <<3, 4>>, y |-> <<3, 4>>, closed |-> FALSE] }

----------------------------------------------------------------------------
\* The event callbacks.

event_callback_function_stateful(meta_data, payload) ==
    LET old_value == getSubmissionData(payload, "ComponentKey")
        new_value == old_value + 2 + calls
        p1 == setSubmissionData(payload, "ComponentKey", new_value)
        new_props == prepare_values(property_editor_rows, << "New value" >>)
        p2 == setSubmissionData(p1, "propertyEditorKey", new_props)
    IN  addAlert(p2, "Event message to show", "info")

event_callback_function_plus1(meta_data, payload) ==
    LET old_value == getSubmissionData(payload, "ComponentKey")
        new_value == old_value + 1
        p1 == setSubmissionData(payload, "ComponentKey", new_value)
        new_props == prepare_values(property_editor_rows, << "New value" >>)
        p2 == setSubmissionData(p1, "propertyEditorKey", new_props)
    IN  addAlert(p2, "Event message to show", "info")

event_callback_function_chaining(meta_data, payload) ==
    LET old_value == getSubmissionData(payload, "ComponentKey")
        new_value == old_value + 2
        p1 == setSubmissionData(payload, "ComponentKey", new_value)
        new_props == prepare_values(property_editor_rows, << "New value" >>)
        p2 == setSubmissionData(p1, "propertyEditorKey", new_props)
        p3 == addAlert(p2, "Event message to show", "info")
    IN  [p3 EXCEPT !["followUp"] = "EventName"]

event_callback_function(meta_data, payload) ==
    LET old_value == getSubmissionData(payload, "ComponentKey")
        new_value == old_value + 2
        p1 == setSubmissionData(payload, "ComponentKey", new_value)
        new_props == prepare_values(property_editor_rows, << "New value" >>)
        p2 == setSubmissionData(p1, "propertyEditorKey", new_props)
        props == getSubmissionData(p2, "propertyEditorKey")
    IN  addAlert(p2, "Event message to show", "info")

blur_function_return_in_branch(meta_data, payload) ==
    IF payload["key"] = "ComponentKey" THEN payload ELSE None

\* The branch on payload["key"] is empty; the return follows it.
blur_function(meta_data, payload) == payload

\* The branch on payload["key"] is empty; the return follows it.
ValueChangedEvent(meta_data, payload) == payload

specific_value_changed_to_self(meta_data, payload) ==
    [payload EXCEPT !["followUp"] = "SpecificValueChangedEvent"]

specific_value_changed(meta_data, payload) ==
    [payload EXCEPT !["followUp"] = "EventName"]

datatables_callback(meta_data, payload) ==
    LET table_value == getSubmissionData(payload, "datatables_key")
        appended == Append(table_value, NewRow)
    IN  setSubmissionData(payload, "datatables_key", appended)

process_plotly_callback(meta_data, payload) ==
    LET plot_obj == getSubmissionData(payload, "plotly")
        plotted == [plot_obj EXCEPT !.traces = @ + 1]
    IN  setSubmissionData(payload, "plotly", plotted)

process_plotly_clear(meta_data, payload) ==
    LET plot_obj == getSubmissionData(payload, "plotly")
        cleared == [plot_obj EXCEPT !.traces = 0]
    IN  setSubmissionData(payload, "plotly", cleared)

\* plot_obj.addShape
addShape(plot_obj, shape) == [plot_obj EXCEPT !.shapes = Append(@, shape)]

process_plotly_shapes_keeping(meta_data, payload) ==
    LET plot_obj == getSubmissionData(payload, "plotly")
        s1 == addShape(plot_obj, simple_shape_box)
        s2 == addShape(s1, path_shape)
    IN  setSubmissionData(payload, "plotly", s2)

process_plotly_shapes(meta_data, payload) ==
    LET plot_obj == getSubmissionData(payload, "plotly")
        shapes_list_of_dicts == plot_obj.shapes
        emptied == [plot_obj EXCEPT !.shapes = << >>]
        s1 == addShape(emptied, simple_shape_box)
        s2 == addShape(s1, path_shape)
    IN  setSubmissionData(payload, "plotly", s2)

Callbacks ==
    { "event_callback_function", "blur_function", "ValueChangedEvent",
      "specific_value_changed", "datatables_callback",
      "process_plotly_callback", "process_plotly_clear",
      "process_plotly_shapes" }

\* Calling the function a name is bound to.
Apply(callback, meta_data, payload) ==
    CASE callback = "event_callback_function" -> event_callback_function(meta_data, payload)
      [] callback = "blur_function" -> blur_function(meta_data, payload)
      [] callback = "ValueChangedEvent" -> ValueChangedEvent(meta_data, payload)
      [] callback = "specific_value_changed" -> specific_value_changed(meta_data, payload)
      [] callback = "datatables_callback" -> datatables_callback(meta_data, payload)
      [] callback = "process_plotly_callback" -> process_plotly_callback(meta_data, payload)
      [] callback = "process_plotly_clear" -> process_plotly_clear(meta_data, payload)
      [] callback = "process_plotly_shapes" -> process_plotly_shapes(meta_data, payload)

----------------------------------------------------------------------------
\* gui_event: the registration and the dispatch.

EventHandlers_swapped ==
    [e \in {"EventName", "blur", "SpecificValueChangedEvent", "change"} |->
        CASE e = "EventName" -> "event_callback_function"
          [] e = "blur" -> "ValueChangedEvent"
          [] e = "SpecificValueChangedEvent" -> "specific_value_changed"
          [] e = "change" -> "blur_function"]

\* The keyword arguments of Form.eventHandler in gui_event.
EventHandlers ==
    [e \in {"EventName", "blur", "SpecificValueChangedEvent", "change"} |->
        CASE e = "EventName" -> "event_callback_function"
          [] e = "blur" -> "blur_function"
          [] e = "SpecificValueChangedEvent" -> "specific_value_changed"
          [] e = "change" -> "ValueChangedEvent"]

RegisteredEvents == DOMAIN EventHandlers

\* The payload snapshot the host builds for an event.
Request(event, key) ==
    [event |-> event, key |-> key,
     ComponentKey |-> data.ComponentKey,
     propertyEditorKey |-> data.propertyEditorKey,
     datatables_key |-> data.datatables_key,
     plotly |-> data.plotly,
     followUp |-> "",
     alerts |-> << >>]

\* The form state the host keeps from a returned payload.
Submission(payload) ==
    [ComponentKey |-> payload.ComponentKey,
     propertyEditorKey |-> payload.propertyEditorKey,
     datatables_key |-> payload.datatables_key,
     plotly |-> payload.plotly]

NoMemo == [none |-> TRUE]

\* One call of a callback by the host, and what the host keeps of its result.
Invocation(callback, meta_data, payload, userTriggered) ==
    LET result == Apply(callback, meta_data, payload)
        isRun == callback = "event_callback_function"
    IN  /\ req' = [meta |-> meta_data, payload |-> payload]
        /\ ret' = result
        /\ prevRan' = ran
        /\ ran' = << callback >>
        /\ chain' = IF userTriggered THEN 1 ELSE chain + 1
        /\ calls' = calls + 1
        /\ data' = IF IsPayload(result) THEN Submission(result) ELSE data
        /\ pending' = IF IsPayload(result) THEN result.followUp ELSE ""
        /\ nRuns' = IF isRun THEN nRuns + 1 ELSE nRuns
        /\ alertsAdded' = IF IsPayload(result)
                            THEN alertsAdded + Len(result.alerts) - Len(payload.alerts)
                            ELSE alertsAdded
        /\ UNCHANGED <<base, form, initLog>>

\* Remembering one invocation, to compare a later one with it.
Remember ==
    \/ memo' = memo
    \/ /\ memo = NoMemo
       /\ memo' = [req |-> req', ret |-> ret', at |-> calls']

gui_event(meta_data, payload, userTriggered) ==
    LET registry == eventHandler(handlers, EventHandlers)
        callback == getEventFunction(registry, meta_data, payload)
    IN  /\ handlers' = registry
        /\ Invocation(callback, meta_data, payload, userTriggered)
        /\ Remember

\* The host calls gui_event for an interaction of the user.
UserEvent ==
    /\ pending = ""
    /\ calls < MaxEvents
    /\ \E e \in RegisteredEvents, k \in TriggerKeys, m \in MetaData :
          gui_event(m, Request(e, k), TRUE)

\* The host dispatches the follow-up event a callback asked for.
FollowUpEvent ==
    /\ pending # ""
    /\ pending \in RegisteredEvents
    /\ gui_event(req.meta, Request(pending, req.payload.key), FALSE)

\* The user types a value in the ComponentKey field.
UserEdit ==
    /\ pending = ""
    /\ \E v \in InitValues :
          /\ data' = [data EXCEPT !.ComponentKey = v]
          /\ base' = v
    /\ nRuns' = 0
    /\ alertsAdded' = 0
    /\ UNCHANGED <<handlers, pending, req, ret, ran, prevRan, chain, calls,
                   memo, form, initLog>>

\* The user draws a shape in the plot.
DrawShape ==
    /\ pending = ""
    /\ Len(data.plotly.shapes) < MaxShapes
    /\ \E s \in UserShapes :
          data' = [data EXCEPT !.plotly.shapes = Append(@, s)]
    /\ UNCHANGED <<handlers, pending, req, ret, ran, prevRan, chain, calls,
                   memo, base, nRuns, alertsAdded, form, initLog>>

\* The host calls one of the file's callbacks for an event of the form.
Invoke ==
    /\ pending = ""
    /\ calls < MaxCalls
    /\ \E cb \in Callbacks, k \in TriggerKeys, m \in MetaData :
          /\ Invocation(cb, m, Request("custom", k), TRUE)
          /\ UNCHANGED <<handlers, memo>>

----------------------------------------------------------------------------
\* Component properties and the component initializers.

Str(x) == [str |-> x]
Num(x) == [num |-> x]
Bool(x) == [bool |-> x]
Unset == [unset |-> TRUE]

Set(prop, value) == [op |-> "set", prop |-> prop, value |-> value]
Add(prop, value) == [op |-> "add", prop |-> prop, value |-> value]
Update(prop, field, value) ==
    [op |-> "update", prop |-> prop, field |-> field, value |-> value]

PropNames ==
    { "label", "description", "tooltip", "labelPosition", "hideLabel", "hidden",
      "defaultValue", "placeholder", "calculateValue", "disabled", "customClass",
      "attributes", "logic", "conditional", "customConditional", "validate",
      "errors", "columns", "features", "options", "internationalisation",
      "aspectRatio", "figure", "config", "properties", "dataSrc", "data" }

\* go.Figure(): a figure with the default layout.
EmptyFigure ==
    [obj |-> [margin |-> "auto", dragmode |-> "zoom", newshape |-> "default",
              images |-> "none", xaxes |-> "auto", yaxes |-> "auto"]]

component_initializer_function ==
    << Set("label", Str("New label")),
       Set("description", Str("Component description")),
       Set("tooltip", Str("Component tooltip")),
       Set("labelPosition", Str("left-left")),
       Set("hideLabel", Bool(TRUE)),
       Set("hidden", Bool(TRUE)),
       Set("defaultValue", Num(2)),
       Set("placeholder", Num(1)),
       Set("calculateValue", Str("value = data.otherComponentKey + 2;")),
       Set("disabled", Bool(TRUE)),
       Set("customClass", Str("bootstrap-class")),
       Set("customClass", Str("form-check-inline")),
       Set("attributes", Str("style=color:red")),
       Add("logic", Str("simple: OtherComponentKey, 2")),
       Add("logic", Str("result: data.otherComponentKey == 2;")),
       Add("logic", Str("event: EventName")),
       Set("conditional", [obj |-> [show |-> "", when |-> "", eq |-> ""]]),
       Update("conditional", "show", "False"),
       Update("conditional", "when", "otherComponentKey"),
       Update("conditional", "eq", "2"),
       Set("customConditional", Str("show = !(data.otherComponentKey == 2);")),
       Set("customConditional", Str("show = data.otherComponentKey == 2;")),
       Set("validate", Str("required, min=2, max=10, integer, minLength=3, maxLength=5, minWords=2, maxWords=5, pattern, custom, customMessage")),
       Set("errors", [obj |-> [required |-> "", min |-> "", max |-> "", custom |-> ""]]),
       Update("errors", "required", "Value of {{ field }} may not be empty."),
       Update("errors", "min", "Value of {{ field }} must be at least {{ min }}."),
       Update("errors", "max", "Value of {{ field }} must be at most {{ max }}."),
       Update("errors", "custom", "Value of {{ field }} is invalid.") >>

component_initializer_datatables ==
    << Set("columns", Str("id")),
       Set("columns", Str("id, name, age, present")),
       Set("defaultValue", [rows |-> DataTablesDefault]) >>

component_initializer_datatables_options ==
    << Set("features", Str("searching=False, ordering=False, paging=False, deferRender=True")),
       Set("options", Str("pageLength=30, lengthMenu, order")),
       Set("internationalisation", Str("decimal=., thousands=,")) >>

component_initializer_plotly ==
    << Set("aspectRatio", Str("4/3")),
       Set("figure", EmptyFigure),
       Update("figure", "margin", "0, 0, 0, 0"),
       Update("figure", "dragmode", "drawclosedpath"),
       Update("figure", "newshape", "white, white, nonzero"),
       Set("config", Str("modeBarButtonsToAdd: drawclosedpath, drawcircle, drawrect, eraseshape")) >>

component_initializer_plotly_background ==
    << Set("figure", EmptyFigure),
       Update("figure", "images", "background.png 600x300 below"),
       Update("figure", "margin", "0, 0, 0, 0"),
       Update("figure", "xaxes", "showgrid=False, range=(1, 601)"),
       Update("figure", "yaxes", "showgrid=False, scaleanchor=x, range=(301, 1)") >>

component_initializer_value_change ==
    << Set("properties", [triggerHappy |-> "True"]) >>

component_initializer_value_change_named ==
    << Set("properties", [triggerHappy |-> "SpecificValueChangedEvent"]) >>

component_initializer_focuslost ==
    << Set("customClass", Str("EventOnBlur")) >>

other_component_initializer_function_and_hidden ==
    << Set("label", Str("Other component label")),
       Set("hidden", Bool(TRUE)) >>

other_component_initializer_function ==
    << Set("label", Str("Other component label")) >>

initializer_function_dynamic_options ==
    << Set("dataSrc", Str("custom")),
       Set("data", [custom |-> "values = data.otherComponentKey;"]) >>

Initializers ==
    { "component_initializer_function", "other_component_initializer_function",
      "component_initializer_datatables", "component_initializer_datatables_options",
      "component_initializer_plotly", "component_initializer_plotly_background",
      "component_initializer_value_change", "component_initializer_value_change_named",
      "component_initializer_focuslost", "initializer_function_dynamic_options" }

\* The statements of an initializer, in order.
Body(name) ==
    CASE name = "component_initializer_function" -> component_initializer_function
      [] name = "other_component_initializer_function" -> other_component_initializer_function
      [] name = "component_initializer_datatables" -> component_initializer_datatables
      [] name = "component_initializer_datatables_options" -> component_initializer_datatables_options
      [] name = "component_initializer_plotly" -> component_initializer_plotly
      [] name = "component_initializer_plotly_background" -> component_initializer_plotly_background
      [] name = "component_initializer_value_change" -> component_initializer_value_change
      [] name = "component_initializer_value_change_named" -> component_initializer_value_change_named
      [] name = "component_initializer_focuslost" -> component_initializer_focuslost
      [] name = "initializer_function_dynamic_options" -> initializer_function_dynamic_options

\* The components of the form and the component class of each.
ComponentKinds ==
    [k \in {"componentKey", "otherComponentKey", "DataTablesComponentKey",
            "PlotlyKey", "selectKey"} |->
        CASE k = "DataTablesComponentKey" -> "DataTables"
          [] k = "PlotlyKey" -> "Plotly"
          [] k = "selectKey" -> "Select"
          [] OTHER -> "Component"]

ComponentKeys == DOMAIN ComponentKinds

\* The component class an initializer is written for (its annotation).
Accepts(name) ==
    CASE name \in {"component_initializer_datatables",
                   "component_initializer_datatables_options"} -> "DataTables"
      [] name \in {"component_initializer_plotly",
                   "component_initializer_plotly_background"} -> "Plotly"
      [] name = "initializer_function_dynamic_options" -> "Select"
      [] OTHER -> "Component"

\* One statement of an initializer acting on the component.
Execute(comp, stmt) ==
    CASE stmt.op = "set" -> [comp EXCEPT ![stmt.prop] = stmt.value]
      [] stmt.op = "add" ->
            [comp EXCEPT ![stmt.prop] =
                [list |-> Append(IF "list" \in DOMAIN @ THEN @.list ELSE << >>,
                                 stmt.value)]]
      [] stmt.op = "update" ->
            [comp EXCEPT ![stmt.prop] =
                [obj |-> [@.obj EXCEPT ![stmt.field] = stmt.value]]]

RECURSIVE RunBody(_, _)
RunBody(comp, stmts) ==
    IF stmts = << >> THEN comp
    ELSE RunBody(Execute(comp, Head(stmts)), Tail(stmts))

\* Form.componentInitializer calling an initializer on a component.
ApplyInitializer ==
    /\ initLog.count < MaxInits
    /\ \E name \in Initializers, key \in ComponentKeys :
          /\ Accepts(name) = ComponentKinds[key]
          /\ form' = [form EXCEPT ![key] = RunBody(form[key], Body(name))]
          /\ initLog' = [name |-> name, key |-> key, before |-> form,
                         result |-> None,
                         count |-> initLog.count + 1]
    /\ UNCHANGED <<handlers, data, pending, req, ret, ran, prevRan, chain,
                   calls, memo, base, nRuns, alertsAdded>>

\* No initializer has run yet.
NoInit == [count |-> 0]

InitialForm == [k \in ComponentKeys |-> [p \in PropNames |-> Unset]]

Init ==
    /\ handlers = << >>
    /\ \E v \in InitValues :
          /\ data = [ComponentKey |-> v,
                     propertyEditorKey |-> PropertyEditorDefault,
                     datatables_key |-> DataTablesDefault,
                     plotly |-> [shapes |-> << >>, traces |-> 0]]
          /\ base = v
    /\ pending = ""
    /\ req = NoRequest
    /\ ret = None
    /\ ran = << >>
    /\ prevRan = << >>
    /\ chain = 0
    /\ calls = 0
    /\ memo = NoMemo
    /\ nRuns = 0
    /\ alertsAdded = 0
    /\ form = InitialForm
    /\ initLog = NoInit

Next == UserEvent \/ FollowUpEvent \/ UserEdit

Spec == Init /\ [][Next]_vars

NextCallbacks == Invoke \/ FollowUpEvent \/ DrawShape

SpecCallbacks == Init /\ [][NextCallbacks]_vars

NextInit == ApplyInitializer

SpecInit == Init /\ [][NextInit]_vars

----------------------------------------------------------------------------
\* Properties of the dispatch, checked under Spec.

\* C1: a gui_event invocation for a registered event name runs exactly one
\* callback, the one registered for that name, and no other.
C1_DispatchRunsRegisteredCallback ==
    req # NoRequest =>
        /\ req.payload.event = "EventName" => ran = << "event_callback_function" >>
        /\ req.payload.event = "blur" => ran = << "blur_function" >>
        /\ req.payload.event = "SpecificValueChangedEvent" => ran = << "specific_value_changed" >>
        /\ req.payload.event = "change" => ran = << "ValueChangedEvent" >>

C1_Witness ==
    /\ req # NoRequest
    /\ req.payload.event = "blur"
    /\ ran = << "blur_function" >>
    /\ prevRan = << "ValueChangedEvent" >>

\* C3: specific_value_changed sets followUp to "EventName" and nothing else,
\* and the invocation that follows it is the follow-up running
\* event_callback_function, before any user-triggered event.
C3_FollowUpRunsEventName ==
    /\ ran = << "specific_value_changed" >> =>
          /\ ret = [req.payload EXCEPT !.followUp = "EventName"]
          /\ pending = "EventName"
    /\ prevRan = << "specific_value_changed" >> =>
          /\ ran = << "event_callback_function" >>
          /\ req.payload.event = "EventName"
          /\ chain = 2

C3_Witness ==
    /\ prevRan = << "specific_value_changed" >>
    /\ ran = << "event_callback_function" >>
    /\ chain = 2

\* C7: the registry after the registration step is the same table on every
\* invocation, and an invocation given the same (meta_data, payload) as an
\* earlier one returns the same payload, whatever was dispatched in between.
C7_StatelessBetweenCalls ==
    /\ calls > 0 =>
          /\ DOMAIN handlers = {"EventName", "blur", "SpecificValueChangedEvent", "change"}
          /\ handlers["EventName"] = "event_callback_function"
          /\ handlers["blur"] = "blur_function"
          /\ handlers["SpecificValueChangedEvent"] = "specific_value_changed"
          /\ handlers["change"] = "ValueChangedEvent"
    /\ (memo # NoMemo /\ req = memo.req) => ret = memo.ret

C7_Witness ==
    /\ memo # NoMemo
    /\ req = memo.req
    /\ calls >= memo.at + 2
    /\ ran = << "event_callback_function" >>
    /\ prevRan # ran

\* C9: a run of event_callback_function adds 2 to ComponentKey, overwrites
\* propertyEditorKey with the prepared "New value", adds one info alert and
\* leaves the other entries alone; after n runs the value is the initial
\* value plus 2*n and n alerts have been added.
C9_EventNameAddsTwo ==
    /\ ran = << "event_callback_function" >> =>
          ret = [req.payload EXCEPT
                    !.ComponentKey = @ + 2,
                    !.propertyEditorKey =
                        [meta |-> << "Property name" >>, values |-> << "New value" >>],
                    !.alerts = Append(@, [message |-> "Event message to show",
                                          type |-> "info"])]
    /\ data.ComponentKey = base + 2 * nRuns
    /\ alertsAdded = nRuns

C9_Witness ==
    /\ ran = << "event_callback_function" >>
    /\ nRuns = 3
    /\ data.ComponentKey = base + 6

----------------------------------------------------------------------------
\* Properties of the callbacks, checked under SpecCallbacks.

\* C2: every callback returns a payload, whatever payload it is given.
C2_CallbacksReturnPayload ==
    ran # << >> => IsPayload(ret)

C2_Witness ==
    /\ ran = << "blur_function" >>
    /\ req.payload.key # "ComponentKey"
    /\ IsPayload(ret)

\* C4: after any number of datatables_callback invocations on the default
\* table value, no two rows of the table have the same id.
C4_RowIdsUnique ==
    \A i, j \in DOMAIN data.datatables_key :
        i # j => data.datatables_key[i].id # data.datatables_key[j].id

\* C8: after process_plotly_shapes the shapes are exactly the line and the
\* closed path, in that order, and a second application changes nothing.
C8_ShapesReplaced ==
    ran = << "process_plotly_shapes" >> =>
        /\ ret.plotly.shapes =
              << [type |-> "line", x |-> <<20, 30>>, y |-> <<15, 25>>, closed |-> FALSE],
                 [type |-> "path", x |-> <<20, 30, 25>>, y |-> <<15, 25, 30>>, closed |-> TRUE] >>
        /\ process_plotly_shapes(req.meta, ret).plotly.shapes = ret.plotly.shapes

C8_Witness ==
    /\ ran = << "process_plotly_shapes" >>
    /\ Len(req.payload.plotly.shapes) = 3
    /\ Len(ret.plotly.shapes) = 2

----------------------------------------------------------------------------
\* Properties of the initializers, checked under SpecInit.

\* The properties each initializer assigns.
AssignedProps(name) ==
    CASE name = "component_initializer_function" ->
            { "label", "description", "tooltip", "labelPosition", "hideLabel",
              "hidden", "defaultValue", "placeholder", "calculateValue",
              "disabled", "customClass", "attributes", "logic", "conditional",
              "customConditional", "validate", "errors" }
      [] name = "other_component_initializer_function" -> { "label" }
      [] name = "component_initializer_datatables" -> { "columns", "defaultValue" }
      [] name = "component_initializer_datatables_options" ->
            { "features", "options", "internationalisation" }
      [] name = "component_initializer_plotly" -> { "aspectRatio", "figure", "config" }
      [] name = "component_initializer_plotly_background" -> { "figure" }
      [] name = "component_initializer_value_change" -> { "properties" }
      [] name = "component_initializer_value_change_named" -> { "properties" }
      [] name = "component_initializer_focuslost" -> { "customClass" }
      [] name = "initializer_function_dynamic_options" -> { "dataSrc", "data" }

\* C6: an initializer changes only the properties it assigns, on the one
\* component it is given, returns nothing, and a property assigned twice
\* ends with the value assigned last.
C6_InitializerFrame ==
    initLog # NoInit =>
        /\ \A k \in ComponentKeys, p \in PropNames :
              (k # initLog.key \/ p \notin AssignedProps(initLog.name)) =>
                  form[k][p] = initLog.before[k][p]
        /\ initLog.result = None
        /\ initLog.name = "component_initializer_function" =>
              /\ form[initLog.key]["customClass"] = [str |-> "form-check-inline"]
              /\ form[initLog.key]["customConditional"] =
                    [str |-> "show = data.otherComponentKey == 2;"]

C6_Witness ==
    /\ initLog # NoInit
    /\ initLog.name = "component_initializer_function"
    /\ initLog.key = "componentKey"
    /\ initLog.before["componentKey"]["label"] = [str |-> "Other component label"]
    /\ initLog.before["componentKey"]["customClass"] = [str |-> "EventOnBlur"]
    /\ form["componentKey"]["customClass"] = [str |-> "form-check-inline"]
    /\ form["otherComponentKey"] = initLog.before["otherComponentKey"]

====
